---- MODULE Spec2Model ----
(***************************************************************************)
(* A model of src/preprocess.py: the Processor class that extracts three   *)
(* fields from fixed-width census records, decodes zoned-decimal numbers,  *)
(* maps ROC SIC codes to ISIC and sums assets by group.                    *)
(*                                                                         *)
(* A Python str is a sequence of one-character strings; a pandas Series is *)
(* a sequence of values; a DataFrame is a record of its column labels and  *)
(* its rows (each row a function from column label to cell).  An exception *)
(* is the value Raise(l), l the source line that raises it.                *)
(***************************************************************************)
EXTENDS Integers, Sequences, FiniteSets, TLC

VARIABLES folder, disk, extracted, data, out, fin, fout

vars == <<folder, disk, extracted, data, out, fin, fout>>

(***************************************************************************)
(* Python values                                                           *)
(***************************************************************************)
None == [kind |-> "None"]

Raise(line) == [kind |-> "Raise", line |-> line]

IsRaise(v) == v.kind = "Raise"

Min(a, b) == IF a < b THEN a ELSE b

Max(a, b) == IF a > b THEN a ELSE b

\* s[i] clamped the way Python clamps a slice bound: negative counts from the end.
SliceBound(i, len) == IF i < 0 THEN Max(0, len + i) ELSE Min(i, len)

\* s[start:stop]
PySlice(s, start, stop) ==
  SubSeq(s, SliceBound(start, Len(s)) + 1, SliceBound(stop, Len(s)))

\* s[:stop]
PySliceStop(s, stop) == SubSeq(s, 1, SliceBound(stop, Len(s)))

\* s[start:]
PySliceStart(s, start) == SubSeq(s, SliceBound(start, Len(s)) + 1, Len(s))

DigitChars == <<"0", "1", "2", "3", "4", "5", "6", "7", "8", "9">>

IsDigit(c) == \E d \in 1..10 : DigitChars[d] = c

DigitVal(c) == (CHOOSE d \in 1..10 : DigitChars[d] = c) - 1

RECURSIVE DigitsVal(_)
DigitsVal(s) ==
  IF s = <<>> THEN 0
  ELSE 10 * DigitsVal(SubSeq(s, 1, Len(s) - 1)) + DigitVal(s[Len(s)])

RECURSIVE LStrip(_)
LStrip(s) == IF s # <<>> /\ s[1] = " " THEN LStrip(Tail(s)) ELSE s

RECURSIVE RStrip(_)
RStrip(s) ==
  IF s # <<>> /\ s[Len(s)] = " " THEN RStrip(SubSeq(s, 1, Len(s) - 1)) ELSE s

\* int(s) as numpy applies it to each str of an object array: surrounding blanks
\* are skipped, one sign is allowed, the rest must be one or more digits.
\* IsPyInt(s) is false where int(s) raises ValueError.
Strip(s) == RStrip(LStrip(s))

Unsigned(t) == IF t # <<>> /\ t[1] \in {"+", "-"} THEN Tail(t) ELSE t

AllDigits(body) == body # <<>> /\ \A i \in 1..Len(body) : IsDigit(body[i])

IsPyInt(s) == AllDigits(Unsigned(Strip(s)))

Signed(t, magnitude) ==
  IF t # <<>> /\ t[1] = "-" THEN 0 - magnitude ELSE magnitude

IntOfStripped(t) == Signed(t, DigitsVal(Unsigned(t)))

PyInt(s) == IntOfStripped(Strip(s))

\* Series.astype('int64') of a Series of str, where every element is an int.
AsTypeInt64(series) == [i \in 1..Len(series) |-> PyInt(series[i])]

CanAsTypeInt64(series) == \A i \in 1..Len(series) : IsPyInt(series[i])

(***************************************************************************)
(* Processor.__zd_convertor                                                *)
(***************************************************************************)
ZdPositive == <<"{", "A", "B", "C", "D", "E", "F", "G", "H", "I">>

ZdNegative == <<"}", "J", "K", "L", "M", "N", "O", "P", "Q", "R">>

ZdKeys ==
  {<<ZdPositive[d]>> : d \in 1..10} \cup {<<ZdNegative[d]>> : d \in 1..10}

\* zd_map[k] = [sign, value]
zd_map(k) ==
  IF \E d \in 1..10 : ZdPositive[d] = k[1]
  THEN [sign |-> 1, value |-> (CHOOSE d \in 1..10 : ZdPositive[d] = k[1]) - 1]
  ELSE [sign |-> 0 - 1, value |-> (CHOOSE d \in 1..10 : ZdNegative[d] = k[1]) - 1]

\* (front_digits + tmp_df['value']) * tmp_df['sign'] of one element
ZdValue(front_digits, mapped) == (front_digits + mapped.value) * mapped.sign

\* The value of a decoded batch.
SeriesOf(values) == [kind |-> "Series", values |-> values]

\* ZdSplit where a code the map has not is read as a positive 0 (the missed
\* lookup filled in, not left as NaN).
ZdSplitLenient(front_str, zd_code) ==
  IF ~CanAsTypeInt64(front_str) THEN Raise(72)
  ELSE SeriesOf([i \in 1..Len(zd_code) |->
                   IF zd_code[i] \in ZdKeys
                   THEN ZdValue(PyInt(front_str[i]) * 10, zd_map(zd_code[i]))
                   ELSE PyInt(front_str[i]) * 10])

\* The lines after n = len(zd_format_series[0]).
ZdSplit(front_str, zd_code) ==
  IF ~CanAsTypeInt64(front_str) THEN Raise(72)
  ELSE IF \E i \in 1..Len(zd_code) : zd_code[i] \notin ZdKeys THEN Raise(77)
  ELSE SeriesOf([i \in 1..Len(zd_code) |->
                   ZdValue(PyInt(front_str[i]) * 10, zd_map(zd_code[i]))])

ZdWithLength(zd_format_series, n) ==
  ZdSplit([i \in 1..Len(zd_format_series) |->
             PySliceStop(zd_format_series[i], n - 1)],
          [i \in 1..Len(zd_format_series) |->
             PySliceStart(zd_format_series[i], n - 1)])

zd_convertor(zd_format_series) ==
  IF zd_format_series = <<>> THEN Raise(70)
  ELSE ZdWithLength(zd_format_series, Len(zd_format_series[1]))

(***************************************************************************)
(* pandas objects                                                          *)
(***************************************************************************)
NaN == [kind |-> "NaN"]

DataFrame(cols, rows) == [kind |-> "DataFrame", cols |-> cols, rows |-> rows]

IsFrame(v) == v.kind = "DataFrame"

Range(seq) == {seq[i] : i \in 1..Len(seq)}

\* The labels pd.concat(axis=1) gives four unnamed Series: 0, 1, 2, 3.
PositionalCols == <<"0", "1", "2", "3">>

\* The labels collect_data assigns.
NamedCols == <<"scale", "primary", "roc_sic", "asset">>

\* pd.concat([a, b]).reset_index(drop=True): a None is dropped; the columns
\* are the union in order of appearance and a missing cell is NaN.
Widen(row, cols) ==
  [c \in Range(cols) |-> IF c \in DOMAIN row THEN row[c] ELSE NaN]

ConcatRows(rows, cols) == DataFrame(cols, [i \in 1..Len(rows) |-> Widen(rows[i], cols)])

\* Concat with the new batch stacked first.
ConcatNewFirst(a, b) ==
  IF ~IsFrame(a) THEN b
  ELSE ConcatRows(b.rows \o a.rows,
                  a.cols \o SelectSeq(b.cols, LAMBDA c : c \notin Range(a.cols)))

Concat(a, b) ==
  IF ~IsFrame(a) THEN b
  ELSE ConcatRows(a.rows \o b.rows,
                  a.cols \o SelectSeq(b.cols, LAMBDA c : c \notin Range(a.cols)))

\* frame.columns = names, where the lengths agree.
SetColumns(frame, names) ==
  DataFrame(names, [i \in 1..Len(frame.rows) |->
                      [c \in Range(names) |->
                         frame.rows[i][frame.cols[CHOOSE k \in 1..Len(names) :
                                                     names[k] = c]]]])

(***************************************************************************)
(* Processor._extract                                                      *)
(***************************************************************************)
\* self.folder[:2]
YearPrefix == PySliceStop(folder, 2)

Y85 == <<"8", "5">>

Y90 == <<"9", "0">>

Y95 == <<"9", "5">>

StrSlice(comps, start, stop) ==
  [i \in 1..Len(comps) |-> PySlice(comps[i], start, stop)]

\* pd.concat([scale, primary, primary_short, asset], axis=1), or the
\* exception that the asset raised.
ExtractFrame(scale, primary, asset) ==
  IF IsRaise(asset) THEN asset
  ELSE DataFrame(PositionalCols,
         [i \in 1..Len(scale) |->
            ("0" :> scale[i]) @@ ("1" :> primary[i])
            @@ ("2" :> PySlice(primary[i], 0, 2)) @@ ("3" :> asset.values[i])])

\* Series.astype('int64') at line 110
PlainAsset(strs) ==
  IF CanAsTypeInt64(strs) THEN SeriesOf(AsTypeInt64(strs)) ELSE Raise(110)

\* ExtractYear with the year-85 scale read at its 1-based position, one
\* character late.
ExtractYearShifted(comps, year, pandas2) ==
  IF year = Y85 THEN
    IF comps = <<>> /\ ~pandas2 THEN Raise(102)
    ELSE ExtractFrame(StrSlice(comps, 8, 9), StrSlice(comps, 13, 17),
                      zd_convertor(StrSlice(comps, 1138, 1153)))
  ELSE IF year = Y90 THEN
    IF comps = <<>> /\ ~pandas2 THEN Raise(107)
    ELSE ExtractFrame(StrSlice(comps, 11, 12), StrSlice(comps, 13, 17),
                      PlainAsset(StrSlice(comps, 1068, 1083)))
  ELSE IF year = Y95 THEN
    IF comps = <<>> /\ ~pandas2 THEN Raise(112)
    ELSE ExtractFrame(StrSlice(comps, 1, 2), StrSlice(comps, 2, 6),
                      zd_convertor(StrSlice(comps, 245, 260)))
  ELSE Raise(118)

\* pandas2 tells the installed pandas: pd.Series([]) has dtype object with
\* pandas 2 and takes .str; with pandas 1 it has dtype float64 and the first
\* .str raises.
ExtractYear(comps, year, pandas2) ==
  IF year = Y85 THEN
    IF comps = <<>> /\ ~pandas2 THEN Raise(102)
    ELSE ExtractFrame(StrSlice(comps, 7, 8), StrSlice(comps, 13, 17),
                      zd_convertor(StrSlice(comps, 1138, 1153)))
  ELSE IF year = Y90 THEN
    IF comps = <<>> /\ ~pandas2 THEN Raise(107)
    ELSE ExtractFrame(StrSlice(comps, 11, 12), StrSlice(comps, 13, 17),
                      PlainAsset(StrSlice(comps, 1068, 1083)))
  ELSE IF year = Y95 THEN
    IF comps = <<>> /\ ~pandas2 THEN Raise(112)
    ELSE ExtractFrame(StrSlice(comps, 1, 2), StrSlice(comps, 2, 6),
                      zd_convertor(StrSlice(comps, 245, 260)))
  ELSE Raise(118)

_extract(company_list, pandas2) == ExtractYear(company_list, YearPrefix, pandas2)

(***************************************************************************)
(* The data folder.  A file is a sequence of byte runs: a run of ASCII     *)
(* bytes holding no line terminator, the terminator "\r\n", or a byte that *)
(* is not ASCII.                                                           *)
(***************************************************************************)
Ascii(text) == [kind |-> "ascii", text |-> text]

CRLF == [kind |-> "crlf"]

NonAscii == [kind |-> "nonascii"]

(***************************************************************************)
(* The census records of the model.  A record is laid out as the table in  *)
(* the docstring of _extract gives it (positions counted from 1); every    *)
(* other position holds ".".                                               *)
(***************************************************************************)
Filler == [i \in 1..1200 |-> "."]

Pad(n) == SubSeq(Filler, 1, n)

RECURSIVE IntStr(_)
IntStr(n) ==
  IF n < 10 THEN <<DigitChars[n + 1]>>
  ELSE Append(IntStr(n \div 10), DigitChars[(n % 10) + 1])

RECURSIVE ZeroPad(_, _)
ZeroPad(str, width) ==
  IF Len(str) >= width THEN str ELSE ZeroPad(<<"0">> \o str, width)

Abs(v) == IF v < 0 THEN 0 - v ELSE v

\* The 15 characters of an asset field holding v.
ZonedText(v) ==
  Append(ZeroPad(IntStr(Abs(v) \div 10), 14),
         IF v < 0 THEN ZdNegative[(Abs(v) % 10) + 1]
         ELSE ZdPositive[(Abs(v) % 10) + 1])

PlainText(v) ==
  IF v < 0 THEN <<"-">> \o ZeroPad(IntStr(Abs(v)), 14)
  ELSE ZeroPad(IntStr(v), 15)

\* First positions of the fields, from 1, and the encoding of the asset.
LayoutOf(year) ==
  IF year = Y85
  THEN [scale |-> 8, primary |-> 14, asset |-> 1139, zoned |-> TRUE]
  ELSE IF year = Y90
  THEN [scale |-> 12, primary |-> 14, asset |-> 1069, zoned |-> FALSE]
  ELSE [scale |-> 2, primary |-> 3, asset |-> 246, zoned |-> TRUE]

AssetText(v, zoned) == IF zoned THEN ZonedText(v) ELSE PlainText(v)

FullText(d, lay) ==
  Pad(lay.scale - 1) \o <<d.scale>>
  \o Pad(lay.primary - lay.scale - 1) \o d.primary
  \o Pad(lay.asset - lay.primary - 4) \o AssetText(d.asset, lay.zoned)
  \o Pad(2)

\* A cut record ends after the first ten characters of its asset field.
CutText(d, lay, full) == IF d.cut THEN SubSeq(full, 1, lay.asset + 9) ELSE full

LaidOut(d, lay) == CutText(d, lay, FullText(d, lay))

\* The text of the record d describes, in the layout of the folder's year.
RecText(d) == LaidOut(d, LayoutOf(YearPrefix))

\* The bytes of a record: a junk record holds one non-ASCII byte.
JunkRuns(d, text) ==
  IF d.junk
  THEN <<Ascii(SubSeq(text, 1, 3)), NonAscii, Ascii(SubSeq(text, 4, Len(text)))>>
  ELSE <<Ascii(text)>>

RecRuns(d) == JunkRuns(d, RecText(d))

RECURSIVE RunsOf(_)
RunsOf(recs) ==
  IF recs = <<>> THEN <<>>
  ELSE RecRuns(recs[1]) \o <<CRLF>> \o RunsOf(Tail(recs))

\* Every record of a file is followed by the line terminator.
FileRuns(file) == RunsOf(file.recs)

(***************************************************************************)
(* Processor.collect_data: reading the folder                              *)
(***************************************************************************)
\* bytes.decode('ascii', 'ignore')
DecodeAsciiIgnore(runs) == SelectSeq(runs, LAMBDA r : r.kind # "nonascii")

\* segments with text added to the last of them
AppendToLast(segments, text) ==
  [segments EXCEPT ![Len(segments)] = @ \o text]

\* str.split("\r\n")
RECURSIVE SplitCRLF(_)
SplitCRLF(runs) ==
  IF runs = <<>> THEN << <<>> >>
  ELSE IF runs[Len(runs)].kind = "crlf"
  THEN Append(SplitCRLF(SubSeq(runs, 1, Len(runs) - 1)), <<>>)
  ELSE AppendToLast(SplitCRLF(SubSeq(runs, 1, Len(runs) - 1)),
                    runs[Len(runs)].text)

\* The files of the folder that collect_data reads, in listdir order.
TargetFiles == SelectSeq(disk.entries, LAMBDA f : ~f.dot)

\* companies_raw of one file
CompaniesRaw(file) ==
  PySliceStop(SplitCRLF(DecodeAsciiIgnore(FileRuns(file))), 0 - 1)

(***************************************************************************)
(* Processor.collect_data                                                  *)
(***************************************************************************)
\* One turn of the loop over target_files: frame is what _extract returned.
RECURSIVE CollectLoop(_, _, _)
CollectStep(files, data_out, frame, pandas2) ==
  IF IsRaise(frame) THEN frame
  ELSE CollectLoop(Tail(files), Concat(data_out, frame), pandas2)

\* The loop over the files still to read; data_out so far.
CollectLoop(files, data_out, pandas2) ==
  IF files = <<>> THEN data_out
  ELSE CollectStep(files, data_out, _extract(CompaniesRaw(files[1]), pandas2),
                   pandas2)

\* Lines 152 to 155: data_out is what the loop left.
CollectEnd(data_out) ==
  IF IsRaise(data_out) THEN data_out
  ELSE IF ~IsFrame(data_out) \/ Len(data_out.cols) # Len(NamedCols)
  THEN Raise(152)
  ELSE SetColumns(data_out, NamedCols)

\* collect_data without the check of the year.
collect_data_AnyYear(pandas2) ==
  IF folder = <<>> THEN [kind |-> "Return", msg |-> "Please specify a folder"]
  ELSE IF ~disk.exists THEN Raise(135)
  ELSE CollectEnd(CollectLoop(TargetFiles, data, pandas2))

\* What collect_data ends with: a message and return, an exception, or the
\* frame it stores.
collect_data(pandas2) ==
  IF folder = <<>> THEN [kind |-> "Return", msg |-> "Please specify a folder"]
  ELSE IF YearPrefix \notin {Y85, Y90, Y95}
  THEN [kind |-> "Return", msg |-> "Destined year not yet finished."]
  ELSE IF ~disk.exists THEN Raise(135)
  ELSE CollectEnd(CollectLoop(TargetFiles, data, pandas2))

(***************************************************************************)
(* Processor.apply_conditions                                              *)
(***************************************************************************)
Str8 == <<"8">>

\* frame[mask].reset_index(drop=True): the rows whose mask is TRUE, in order.
RECURSIVE BoolIndex(_, _)
BoolIndex(rows, mask) ==
  IF rows = <<>> THEN <<>>
  ELSE IF mask[1] THEN <<rows[1]>> \o BoolIndex(Tail(rows), Tail(mask))
  ELSE BoolIndex(Tail(rows), Tail(mask))

\* cond1 with == for !=.
cond1Equal(frame) == [i \in 1..Len(frame.rows) |-> frame.rows[i]["scale"] = Str8]

\* cond1 = (self.__data['scale'] != "8")
cond1(frame) == [i \in 1..Len(frame.rows) |-> frame.rows[i]["scale"] # Str8]

apply_conditions(frame) ==
  DataFrame(frame.cols, BoolIndex(frame.rows, cond1(frame)))

(***************************************************************************)
(* Processor.sic_mapping                                                   *)
(***************************************************************************)
\* str.split(",")
RECURSIVE SplitComma(_)
SplitComma(str) ==
  IF str = <<>> THEN << <<>> >>
  ELSE IF str[Len(str)] = ","
  THEN Append(SplitComma(SubSeq(str, 1, Len(str) - 1)), <<>>)
  ELSE AppendToLast(SplitComma(SubSeq(str, 1, Len(str) - 1)), <<str[Len(str)]>>)

\* str.isnumeric(), for the characters of the model
IsNumeric(k) == k # <<>> /\ \A i \in 1..Len(k) : IsDigit(k[i])

\* The key a code is stored under.
PadKey(k) == IF IsNumeric(k) /\ DigitsVal(k) < 10 THEN <<"0">> \o k ELSE k

EmptyDict == [k \in {} |-> None]

\* dict[key] = value
DictSet(dict, key, value) ==
  [k \in DOMAIN dict \cup {key} |-> IF k = key THEN value ELSE dict[k]]

\* The inner loop: the codes of one row from position j on.
RECURSIVE MapCodes(_, _, _, _)
MapCodes(dict, codes, j, isic) ==
  IF j > Len(codes) THEN dict
  ELSE MapCodes(DictSet(dict, PadKey(codes[j]), isic), codes, j + 1, isic)

\* The outer loop: the rows of the table from position i on.
RECURSIVE MapRows(_, _, _, _)
MapRows(dict, sic_tb, column, i) ==
  IF i > Len(sic_tb) THEN dict
  ELSE MapRows(MapCodes(dict, SplitComma(sic_tb[i][column]), 1,
                        sic_tb[i]["ISIC_Rev3"]),
               sic_tb, column, i + 1)

\* The column of the reference table the year uses.
CodeColumn ==
  IF YearPrefix = Y85 THEN "ROCSIC_6"
  ELSE IF YearPrefix = Y90 THEN "ROCSIC_7"
  ELSE "ROCSIC_8"

rocsic_to_isic(sic_tb) == MapRows(EmptyDict, sic_tb, CodeColumn, 1)

ElseKey == <<"E", "l", "s", "e">>

\* The key of a row that sic_mapping looks up.
\* LookupKey on the column of the full code.
LookupKeyPrimary(row) == row["primary"]

LookupKey(row) == row["roc_sic"]

\* Series.map(dict).fillna(default) of one row
Lookup(dict, key, default) == IF key \in DOMAIN dict THEN dict[key] ELSE default

MapOrDefault(dict, row, default) == Lookup(dict, LookupKey(row), default)

\* self.__data['isic'] = ...: the column is added at the end, or replaced.
WithIsic(frame, dict, default) ==
  DataFrame(
    IF "isic" \in Range(frame.cols) THEN frame.cols
    ELSE Append(frame.cols, "isic"),
    [i \in 1..Len(frame.rows) |->
       [c \in Range(frame.cols) \cup {"isic"} |->
          IF c = "isic" THEN MapOrDefault(dict, frame.rows[i], default)
          ELSE frame.rows[i][c]]])

\* Line 209, with the dictionary built.
MapFrame(frame, dict) ==
  IF ElseKey \notin DOMAIN dict THEN Raise(209)
  ELSE WithIsic(frame, dict, dict[ElseKey])

sic_mapping(frame, sic_tb) == MapFrame(frame, rocsic_to_isic(sic_tb))

(***************************************************************************)
(* Processor.some_analysis                                                 *)
(***************************************************************************)
RECURSIVE SumAsset(_, _, _)
SumAsset(rows, column, key) ==
  IF rows = <<>> THEN 0
  ELSE (IF rows[1][column] = key THEN rows[1]["asset"] ELSE 0)
       + SumAsset(Tail(rows), column, key)

\* GroupBySum with the first asset of each key for the sum.
GroupByFirst(frame, column) ==
  [kind |-> "Grouped", by |-> column,
   sums |-> [key \in {frame.rows[i][column] : i \in 1..Len(frame.rows)} |->
               frame.rows[CHOOSE i \in 1..Len(frame.rows) :
                            /\ frame.rows[i][column] = key
                            /\ \A j \in 1..(i - 1) :
                                 frame.rows[j][column] # key]["asset"]]]

\* frame.groupby([column])['asset'].sum(): one sum per key present.
GroupBySum(frame, column) ==
  [kind |-> "Grouped", by |-> column,
   sums |-> [key \in {frame.rows[i][column] : i \in 1..Len(frame.rows)} |->
               SumAsset(frame.rows, column, key)]]

(***************************************************************************)
(* The inputs of the model                                                 *)
(***************************************************************************)
MaxFiles == 2

\* Folder names: none, one of each supported year, an unsupported year.
Folders ==
  {<<>>, <<"8", "5", "a">>, <<"9", "0", "a">>, <<"9", "5", "a">>,
   <<"8", "0", "a">>}

D1 == [scale |-> "1", primary |-> <<"0", "5", "1", "2">>, asset |-> 100,
       cut |-> FALSE, junk |-> TRUE]

D2 == [scale |-> "8", primary |-> <<"0", "5", "3", "0">>, asset |-> 0 - 30,
       cut |-> FALSE, junk |-> FALSE]

D3 == [scale |-> "1", primary |-> <<"7", "7", "0", "1">>, asset |-> 7,
       cut |-> FALSE, junk |-> FALSE]

D4 == [scale |-> "2", primary |-> <<"0", "5", "1", "2">>, asset |-> 5,
       cut |-> TRUE, junk |-> FALSE]

SeqsUpTo(S, n) == UNION {[1..k -> S] : k \in 0..n}

\* A directory entry: a data file, or a file whose name holds a ".".
DataFile(recs) == [dot |-> FALSE, recs |-> recs]

Entries ==
  {DataFile(<<>>), DataFile(<<D1, D2>>), DataFile(<<D3>>), DataFile(<<D2>>),
   DataFile(<<D2, D4>>), [dot |-> TRUE, recs |-> <<D1>>]}

NoDir == [exists |-> FALSE, entries |-> <<>>]

Disks ==
  {[exists |-> TRUE, entries |-> e] : e \in SeqsUpTo(Entries, MaxFiles)}
  \cup {NoDir}

TableRow(isic, r6, r7, r8) ==
  [ISIC_Rev3 |-> isic, ROCSIC_6 |-> r6, ROCSIC_7 |-> r7, ROCSIC_8 |-> r8]

ElseRow == TableRow("Z", ElseKey, ElseKey, ElseKey)

\* "5" and "12" in different rows per year; a four-character code for 95.
Table1 ==
  <<TableRow("A", <<"5">>, <<"1", "2">>, <<"5", ",", "1", "2">>),
    TableRow("B", <<"1", "2">>, <<"5">>, <<"0", "5", "1", "2">>),
    ElseRow>>

\* No default row.
Table2 == <<TableRow("A", <<"5">>, <<"5">>, <<"5">>)>>

\* A code that is padded already, and a code listed by two rows.
Table3 ==
  <<TableRow("A", <<"0", "5", ",", "5">>, <<"0", "5">>, <<"5">>),
    TableRow("B", <<"5">>, <<"7", "7">>, <<"5">>),
    ElseRow>>

Tables == {Table1, Table2, Table3}

(***************************************************************************)
(* The Processor: its state and its methods                                *)
(***************************************************************************)
WarnNotCollected == "Not yet processed, please collect the data first."

\* What the last call did: the message it printed, the data it printed or
\* wrote, what it returned, the line that raised if one did, and the locals
\* by_rocsic of some_analysis and sic_tb of sic_mapping.
Returned(op, msg, shown, ret) ==
  [op |-> op, raised |-> FALSE, line |-> 0, msg |-> msg, shown |-> shown,
   ret |-> ret, by_rocsic |-> None, sic_tb |-> None]

Raised(op, msg, exc) ==
  [op |-> op, raised |-> TRUE, line |-> exc.line, msg |-> msg, shown |-> None,
   ret |-> None, by_rocsic |-> None, sic_tb |-> None]

Init ==
  /\ folder \in Folders
  /\ disk \in Disks
  /\ extracted = FALSE
  /\ data = None
  /\ out = Returned("__init__", "", None, None)
  /\ fin = None
  /\ fout = None

Env == <<folder, disk, fin, fout>>

CollectData ==
  \E pandas2 \in BOOLEAN :
    \E r \in {collect_data(pandas2)} :
      /\ IF r.kind = "Return"
         THEN /\ out' = Returned("collect_data", r.msg, None, None)
              /\ UNCHANGED <<extracted, data>>
         ELSE IF IsRaise(r)
         THEN /\ out' = Raised("collect_data", "", r)
              /\ UNCHANGED <<extracted, data>>
         ELSE /\ extracted' = TRUE
              /\ data' = r
              /\ out' = Returned("collect_data", "completed", None, None)
      /\ UNCHANGED Env

ApplyConditions ==
  /\ IF ~extracted
     THEN /\ out' = Returned("apply_conditions", WarnNotCollected, None, None)
          /\ UNCHANGED data
     ELSE /\ data' = apply_conditions(data)
          /\ out' = Returned("apply_conditions", "", None, None)
  /\ UNCHANGED <<extracted, Env>>

SicMapping ==
  /\ IF ~extracted
     THEN /\ out' = Returned("sic_mapping", WarnNotCollected, None, None)
          /\ UNCHANGED data
     ELSE \E sic_tb \in Tables :
            \E r \in {sic_mapping(data, sic_tb)} :
              IF IsRaise(r)
              THEN /\ out' = [Raised("sic_mapping", "", r)
                                EXCEPT !.sic_tb = sic_tb]
                   /\ UNCHANGED data
              ELSE /\ data' = r
                   /\ out' = [Returned("sic_mapping", "", None, None)
                                EXCEPT !.sic_tb = sic_tb]
  /\ UNCHANGED <<extracted, Env>>

SomeAnalysis ==
  /\ IF ~IsFrame(data)
     THEN out' = Raised("some_analysis", "", Raise(212))
     ELSE IF "isic" \notin Range(data.cols)
     THEN out' = [Raised("some_analysis", "", Raise(213))
                    EXCEPT !.by_rocsic = GroupBySum(data, "roc_sic")]
     ELSE out' = [Returned("some_analysis", "", GroupBySum(data, "isic"), None)
                    EXCEPT !.by_rocsic = GroupBySum(data, "roc_sic")]
  /\ UNCHANGED <<extracted, data, Env>>

ShowData ==
  /\ IF ~extracted
     THEN out' = Returned("show_data", WarnNotCollected, None, None)
     ELSE out' = Returned("show_data", "", data, None)
  /\ UNCHANGED <<extracted, data, Env>>

GetData ==
  /\ out' = Returned("get_data", IF extracted THEN "" ELSE WarnNotCollected,
                     None, data)
  /\ UNCHANGED <<extracted, data, Env>>

OutputCSV ==
  /\ LET msg == IF extracted THEN "" ELSE WarnNotCollected
     IN  IF ~IsFrame(data)
         THEN out' = Raised("output_CSV", msg, Raise(235))
         ELSE out' = Returned("output_CSV", msg, data, None)
  /\ UNCHANGED <<extracted, data, Env>>

Next ==
  \/ CollectData
  \/ ApplyConditions
  \/ SicMapping
  \/ SomeAnalysis
  \/ ShowData
  \/ GetData
  \/ OutputCSV

Spec == Init /\ [][Next]_vars

(***************************************************************************)
(* The decoder on its own: a batch is drawn, then decoded.                 *)
(***************************************************************************)
MaxLead == 3

MaxBatch == 2

LeadDigits == {"0", "7", "8"}

\* The twenty symbols of zd_map, a letter outside it and a digit.
Terminals == Range(ZdPositive) \cup Range(ZdNegative) \cup {"x", "5"}

ZdStrings ==
  {Append(lead, t) : lead \in SeqsUpTo(LeadDigits, MaxLead), t \in Terminals}
  \cup {<<>>}

\* Strings of several lengths, well formed and not, for the longer batches.
MixStrings ==
  {<<"7", "8", "8", "D">>, <<"7", "8", "8", "}">>, <<"7", "8", "A">>,
   <<"7", "8", "x">>, <<"7", "8", "8", "5">>}

ZdBatches ==
  {<<>>} \cup {<<str>> : str \in ZdStrings}
  \cup UNION {[1..k -> MixStrings] : k \in 2..MaxBatch}

InitZD ==
  /\ folder = <<>>
  /\ disk = NoDir
  /\ extracted = FALSE
  /\ data = None
  /\ out = Returned("__init__", "", None, None)
  /\ fin \in ZdBatches
  /\ fout = None

ZdConvert ==
  /\ fout = None
  /\ fout' = zd_convertor(fin)
  /\ UNCHANGED <<folder, disk, extracted, data, out, fin>>

SpecZD == InitZD /\ [][ZdConvert]_vars

(***************************************************************************)
(* Properties of the decoder (under SpecZD)                                *)
(***************************************************************************)
\* The zoned-decimal alphabet as the specification states it: the symbol at
\* position d + 1 stands for the final digit d.
PositiveSymbols == <<"{", "A", "B", "C", "D", "E", "F", "G", "H", "I">>

NegativeSymbols == <<"}", "J", "K", "L", "M", "N", "O", "P", "Q", "R">>

IsSymbol(c) == c \in Range(PositiveSymbols) \cup Range(NegativeSymbols)

\* One or more decimal digits, then one symbol of the alphabet.
IsZoned(str) ==
  /\ Len(str) >= 2
  /\ \A i \in 1..(Len(str) - 1) : IsDigit(str[i])
  /\ IsSymbol(str[Len(str)])

SymbolDigit(c) ==
  (CHOOSE d \in 1..10 : PositiveSymbols[d] = c \/ NegativeSymbols[d] = c) - 1

SymbolSign(c) == IF c \in Range(PositiveSymbols) THEN 1 ELSE 0 - 1

\* sign * (10 * value of the leading digits + final digit)
ZonedValue(str) ==
  SymbolSign(str[Len(str)])
  * (10 * DigitsVal(SubSeq(str, 1, Len(str) - 1)) + SymbolDigit(str[Len(str)]))

HasBadTerminal(str) == str # <<>> /\ ~IsSymbol(str[Len(str)])

\* C1: a batch of one or more strings that are each one or more digits followed by one
\* symbol of the alphabet is decoded, every string to sign * (10 * leading
\* digits + final digit); so "788D" gives 7884, "788}" gives -7880 and "00}"
\* gives 0.
C1_DecodesEveryZonedString ==
  (fout # None /\ fin # <<>> /\ \A i \in 1..Len(fin) : IsZoned(fin[i])) =>
    /\ fout.kind = "Series"
    /\ Len(fout.values) = Len(fin)
    /\ \A i \in 1..Len(fin) : fout.values[i] = ZonedValue(fin[i])

\* C9: a batch holding a string whose last character is no symbol of the
\* alphabet is not decoded: the call raises, whatever the position of that
\* string in the batch, and no number is returned for it.
C9_BadTerminalRaises ==
  (fout # None /\ \E i \in 1..Len(fin) : HasBadTerminal(fin[i])) =>
    IsRaise(fout)

\* A batch whose first string is well formed and whose second is not, decoded.
C9_Witness ==
  /\ IsRaise(fout)
  /\ Len(fin) = 2
  /\ IsZoned(fin[1])
  /\ HasBadTerminal(fin[2])
  /\ Len(fin[2]) = Len(fin[1])

(***************************************************************************)
(* Properties of the Processor (under Spec)                                *)
(***************************************************************************)
RECURSIVE RecsOf(_)
RecsOf(files) ==
  IF files = <<>> THEN <<>> ELSE files[1].recs \o RecsOf(Tail(files))

\* The records of the files collect_data reads, file after file.
TargetRecs == RecsOf(TargetFiles)

\* collect_data has just run to its end.
Completed == out.op = "collect_data" /\ ~out.raised /\ out.msg = "completed"

\* The field positions as the specification tables them: <<offset, length>>
\* counted from 0.
DocumentedLayout ==
  IF YearPrefix = Y85
  THEN [scale |-> <<7, 1>>, primary |-> <<13, 4>>, asset |-> <<1138, 15>>,
        zoned |-> TRUE]
  ELSE IF YearPrefix = Y90
  THEN [scale |-> <<11, 1>>, primary |-> <<13, 4>>, asset |-> <<1068, 15>>,
        zoned |-> FALSE]
  ELSE [scale |-> <<1, 1>>, primary |-> <<2, 4>>, asset |-> <<245, 15>>,
        zoned |-> TRUE]

Field(text, at) == SubSeq(text, at[1] + 1, at[1] + at[2])

\* Row and record agree on the scale and the primary code, both read at the
\* documented positions, and the short code is the first two characters.
CodesAsDocumented(row, d, lay) ==
  /\ row["scale"] = Field(RecText(d), lay.scale)
  /\ row["scale"] = <<d.scale>>
  /\ row["primary"] = Field(RecText(d), lay.primary)
  /\ row["primary"] = d.primary
  /\ row["roc_sic"] = SubSeq(d.primary, 1, 2)

\* The asset field at the documented position holds the record's asset in the
\* documented encoding, and the row holds its value.
AssetAsDocumented(row, d, lay) ==
  /\ Field(RecText(d), lay.asset) = AssetText(d.asset, lay.zoned)
  /\ row["asset"] = d.asset

\* C2: after collect_data every row holds the scale, the primary code and the
\* asset read at the documented (offset, length) of its year, the asset in the
\* documented encoding, and its short code is the first 2 characters of the
\* primary code.  (The asset is compared for records long enough to hold it.)
C2_FieldsAtDocumentedPositions ==
  Completed =>
    \A k \in 1..Len(TargetRecs) :
      /\ k <= Len(data.rows)
      /\ CodesAsDocumented(data.rows[k], TargetRecs[k], DocumentedLayout)
      /\ ~TargetRecs[k].cut =>
           AssetAsDocumented(data.rows[k], TargetRecs[k], DocumentedLayout)

\* A year-85 folder collected: a positive and a negative zoned asset.
C2_Witness ==
  /\ Completed
  /\ YearPrefix = Y85
  /\ Len(data.rows) >= 2
  /\ data.rows[1]["asset"] = 100
  /\ data.rows[2]["asset"] = 0 - 30

\* C3: after collect_data the rows are the records of the files read, one row
\* per record, file after file and in each file's order; only the empty
\* segment after a file's last line terminator is left out.
C3_OneRowPerRecordInOrder ==
  Completed =>
    /\ data.cols = NamedCols
    /\ Len(data.rows) = Len(TargetRecs)
    /\ \A k \in 1..Len(TargetRecs) :
         /\ data.rows[k]["scale"] = <<TargetRecs[k].scale>>
         /\ data.rows[k]["primary"] = TargetRecs[k].primary

\* Two files read, of two records and of one.
C3_Witness ==
  /\ Completed
  /\ Len(TargetFiles) = 2
  /\ Len(TargetFiles[1].recs) = 2
  /\ Len(data.rows) = 3

\* sic_mapping has just run on collected data; out.sic_tb is the table it read.
Mapped == extracted /\ out.op = "sic_mapping" /\ ~out.raised

DefaultIsic == rocsic_to_isic(out.sic_tb)[ElseKey]

\* C4 as stated: the classification of a row is the table's entry for its full
\* 4-character primary code, or the "Else" entry's code.
C4_LooksUpFullCode ==
  Mapped =>
    \A i \in 1..Len(data.rows) :
      data.rows[i]["isic"] =
        Lookup(rocsic_to_isic(out.sic_tb), data.rows[i]["primary"], DefaultIsic)

\* C4 amended: the classification of a row is the table's entry for its
\* 2-character short code (the first two characters of the primary code), or
\* the "Else" entry's code when the table has no such key.
C4_LooksUpShortCode ==
  Mapped =>
    \A i \in 1..Len(data.rows) :
      data.rows[i]["isic"] =
        Lookup(rocsic_to_isic(out.sic_tb),
               SubSeq(data.rows[i]["primary"], 1, 2), DefaultIsic)

\* A row found under its short code beside a row that got the default.
C4_Witness ==
  /\ Mapped
  /\ \E i, j \in 1..Len(data.rows) :
       /\ data.rows[i]["roc_sic"] \in DOMAIN rocsic_to_isic(out.sic_tb)
       /\ data.rows[i]["primary"] \notin DOMAIN rocsic_to_isic(out.sic_tb)
       /\ data.rows[i]["isic"] # DefaultIsic
       /\ data.rows[j]["roc_sic"] \notin DOMAIN rocsic_to_isic(out.sic_tb)
       /\ data.rows[j]["isic"] = DefaultIsic

GuardedOps ==
  {"apply_conditions", "sic_mapping", "some_analysis", "show_data", "get_data",
   "output_CSV"}

\* C5: called before collect_data has completed, each of apply_conditions,
\* sic_mapping, some_analysis, show_data, get_data and output_CSV prints the
\* 'not yet collected' message, raises nothing, returns no data and leaves the
\* flag and the rows as they were.
C5_BeforeCollectionWarnsOnly ==
  (~extracted /\ out.op \in GuardedOps) =>
    /\ out.msg = WarnNotCollected
    /\ ~out.raised
    /\ out.ret = None
    /\ out.shown = None
    /\ data = None

Unsupported == folder = <<>> \/ YearPrefix \notin {Y85, Y90, Y95}

\* C6: with an empty folder name or a year prefix other than 85, 90, 95,
\* collect_data prints its message and returns, and whatever was called
\* before, the flag stays false and no rows are held.
C6_UnsupportedYearKeepsNothing ==
  Unsupported =>
    /\ ~extracted
    /\ data = None
    /\ out.op = "collect_data" =>
         /\ ~out.raised
         /\ out.msg = (IF folder = <<>> THEN "Please specify a folder"
                       ELSE "Destined year not yet finished.")

\* collect_data called on a folder of an unsupported year.
C6_Witness ==
  /\ folder # <<>>
  /\ Unsupported
  /\ out.op = "collect_data"
  /\ out.msg = "Destined year not yet finished."

\* The positions of the rows whose scale is not "8".
Kept(rows) == {i \in 1..Len(rows) : rows[i]["scale"] # <<"8">>}

\* after holds exactly the rows of before whose scale is not "8", unchanged
\* and in their order.
IsFiltered(before, after) ==
  /\ after.cols = before.cols
  /\ Len(after.rows) = Cardinality(Kept(before.rows))
  /\ \A i \in Kept(before.rows) :
       after.rows[Cardinality({j \in Kept(before.rows) : j <= i})]
         = before.rows[i]

\* C7: apply_conditions on collected rows removes every row whose scale is
\* "8" and keeps every other row, unchanged and in order; applying it to the
\* result changes nothing.
C7_FilterDropsScale8 ==
  [][(extracted /\ out'.op = "apply_conditions") =>
       /\ IsFiltered(data, data')
       /\ \A i \in 1..Len(data'.rows) : data'.rows[i]["scale"] # <<"8">>
       /\ apply_conditions(data') = data']_vars

\* apply_conditions has removed a row and kept another.
C7_Witness ==
  /\ extracted
  /\ out.op = "apply_conditions"
  /\ Len(data.rows) >= 1
  /\ Len(data.rows) < Len(TargetRecs)

RECURSIVE SumAt(_, _)
SumAt(rows, idx) ==
  IF idx = {} THEN 0
  ELSE rows[CHOOSE i \in idx : TRUE]["asset"]
       + SumAt(rows, idx \ {CHOOSE i \in idx : TRUE})

\* grouped has one entry per value of column in the rows: the sum of the
\* assets of the rows with that value.
IsGroupSum(grouped, rows, column) ==
  /\ DOMAIN grouped.sums = {rows[i][column] : i \in 1..Len(rows)}
  /\ \A key \in DOMAIN grouped.sums :
       grouped.sums[key] =
         SumAt(rows, {i \in 1..Len(rows) : rows[i][column] = key})

\* C8: on rows that hold a classification, some_analysis computes for roc_sic
\* and for isic one entry per key present, the sum of the signed assets of the
\* rows with that key (100 and -30 give 70); no row gives no entry, and no
\* error.
C8_GroupSums ==
  (out.op = "some_analysis" /\ IsFrame(data) /\ "isic" \in Range(data.cols)) =>
    /\ ~out.raised
    /\ IsGroupSum(out.by_rocsic, data.rows, "roc_sic")
    /\ IsGroupSum(out.shown, data.rows, "isic")

\* Two rows of one classification, 100 and -30, summed to 70.
C8_Witness ==
  /\ out.op = "some_analysis"
  /\ ~out.raised
  /\ Len(data.rows) = 2
  /\ \E key \in DOMAIN out.shown.sums : out.shown.sums[key] = 70

\* The key of a code as the specification states it: a numeric code of value
\* under 10 in its two-character form, any other code unchanged.
TwoCharacterKey(code) ==
  IF IsNumeric(code) /\ DigitsVal(code) < 10
  THEN <<"0", DigitChars[DigitsVal(code) + 1]>>
  ELSE code

\* The classifications of the entries that list a code of this key.
ListedUnder(key) ==
  {out.sic_tb[i]["ISIC_Rev3"] :
     i \in {j \in 1..Len(out.sic_tb) :
              \E code \in Range(SplitComma(out.sic_tb[j][CodeColumn])) :
                TwoCharacterKey(code) = key}}

\* C10: the table sic_mapping builds maps every code of every entry's
\* comma-separated list to the classification of an entry that lists it; a
\* numeric code of value under 10 is keyed by its two-character form, any
\* other code by itself.
C10_KeysAreTwoCharacterForm ==
  (extracted /\ out.op = "sic_mapping") =>
    \A i \in 1..Len(out.sic_tb) :
      \A code \in Range(SplitComma(out.sic_tb[i][CodeColumn])) :
        /\ TwoCharacterKey(code) \in DOMAIN rocsic_to_isic(out.sic_tb)
        /\ rocsic_to_isic(out.sic_tb)[TwoCharacterKey(code)]
             \in ListedUnder(TwoCharacterKey(code))

====
